---- MODULE Spec2Model ----
(***************************************************************************)
(* A model of puzzle.py: the Cell/Grid wall map, the maze carver, the      *)
(* depth-first walk, the partition loop, the three optimizer passes and    *)
(* the interior-wall classifier.                                           *)
(***************************************************************************)
EXTENDS Integers, Sequences, FiniteSets, TLC

\* Bounds of the model: the grids have at most MaxCells cells (width * height),
\* and mincomponent <= maxcomponent <= MaxComponent.
MaxCells == 7
MaxComponent == 6

\* Program constants: the attempts of optimize_too_big_pieces, the slack of the
\* partition loop's skip test, the slack of the too-big test, and the initial
\* count_smallest of optimize_small_pieces.
MaxAttempts == 20
TailSlack == 3
BigSlack == 3
CountSmallestInit == 10000

\* width, height, mincomponent, maxcomponent: the arguments.
\* barriers[<<x, y>>][direction]: Cell.barriers of grid_map[x][y].
\* pc: the position in the pipeline; scan: the (x, y) of a pass's nested loops.
\* The other variables carry the names of the locals they stand for.
\* h_big and h_cell are history variables: the wall map with which
\* optimize_too_big_pieces began, and the wall map with which it took up the
\* cell under the scan (after the pass: the wall map it left).
VARIABLES width, height, mincomponent, maxcomponent,
          barriers, pc,
          current_cell, cell_stack, total_visited,
          walk, current_index, cut_point,
          scan,
          reachable_cells, starting_length, attempts,
          rand_cell, random_direction, prior_wall,
          h_big, h_cell

vars == <<width, height, mincomponent, maxcomponent,
          barriers, pc,
          current_cell, cell_stack, total_visited,
          walk, current_index, cut_point,
          scan,
          reachable_cells, starting_length, attempts,
          rand_cell, random_direction, prior_wall,
          h_big, h_cell>>

(***************************************************************************)
(* Cell                                                                    *)
(***************************************************************************)
Directions == {"N", "S", "E", "W"}

wall_compliments == [N |-> "S", S |-> "N", E |-> "W", W |-> "E"]

wall_types == {"None", "Normal", "Interior", "Extra"}

\* find_neighbor's "None" result, and cell_smallest's initial value.
NoCell == <<-1, -1>>

Cells == {c \in (0..(width - 1)) \X (0..(height - 1)) : TRUE}

\* Cell.__init__: normal walls everywhere.
NewCell == [d \in Directions |-> "Normal"]

is_completely_disconnected(b, cell) == \A d \in Directions : b[cell][d] = "Normal"

has_wall(b, cell, direction) == b[cell][direction] # "None"

remove_wall(b, self, other, direction) ==
  [b EXCEPT ![self][direction] = "None",
            ![other][wall_compliments[direction]] = "None"]

\* A slip that updates only the caller's side of the wall.
set_wall_oneway(b, self, other, direction, wall_type) ==
  [grid |-> [b EXCEPT ![self][direction] = wall_type],
   result |-> b[self][direction]]

\* A slip that returns the new kind instead of the prior one.
set_wall_newkind(b, self, other, direction, wall_type) ==
  [grid |-> [b EXCEPT ![self][direction] = wall_type,
                      ![other][wall_compliments[direction]] = wall_type],
   result |-> wall_type]

\* set_wall: the new wall map and the returned prior kind.
set_wall(b, self, other, direction, wall_type) ==
  [grid |-> [b EXCEPT ![self][direction] = wall_type,
                      ![other][wall_compliments[direction]] = wall_type],
   result |-> b[self][direction]]

(***************************************************************************)
(* Grid: neighbours and reachability                                       *)
(***************************************************************************)
delta == << <<"W", -1, 0>>, <<"E", 1, 0>>, <<"S", 0, 1>>, <<"N", 0, -1>> >>

InBounds(x, y) == (0 <= x) /\ (x < width) /\ (0 <= y) /\ (y < height)

InSeq(e, s) == \E i \in 1..Len(s) : s[i] = e

SeqToSet(s) == {s[i] : i \in 1..Len(s)}

\* The (direction, cell) pairs of the in-bounds neighbours, in delta's order.
get_valid_neighbors(cell) ==
  LET Target(t) == <<cell[1] + t[2], cell[2] + t[3]>>
      Valid(t) == InBounds(Target(t)[1], Target(t)[2])
      kept == SelectSeq(delta, Valid)
  IN [i \in 1..Len(kept) |-> <<kept[i][1], Target(kept[i])>>]

get_directly_reachable_neighbors(b, cell) ==
  LET Open(n) == ~has_wall(b, cell, n[1])
  IN SelectSeq(get_valid_neighbors(cell), Open)

\* A slip that takes every neighbour still behind a wall for an unused one.
find_unused_neighbors_walled(b, cell) ==
  LET Walled(n) == has_wall(b, cell, n[1])
  IN SelectSeq(get_valid_neighbors(cell), Walled)

find_unused_neighbors(b, cell) ==
  LET Unused(n) == is_completely_disconnected(b, n[2])
  IN SelectSeq(get_valid_neighbors(cell), Unused)

find_neighbor(cell, direction) ==
  LET dx == CASE direction = "W" -> -1 [] direction = "E" -> 1 [] OTHER -> 0
      dy == CASE direction = "S" -> 1 [] direction = "N" -> -1 [] OTHER -> 0
  IN IF InBounds(cell[1] + dx, cell[2] + dy)
     THEN <<cell[1] + dx, cell[2] + dy>>
     ELSE NoCell

RECURSIVE all_reachable_recursive(_, _, _)
RECURSIVE all_reachable_loop(_, _, _, _, _)

\* The for loop of all_reachable_recursive; seen is the shared list.
all_reachable_loop(b, nbrs, i, result, seen) ==
  IF i > Len(nbrs) THEN [result |-> result, seen |-> seen]
  ELSE LET next_cell == nbrs[i][2]
       IN IF InSeq(next_cell, seen)
          THEN all_reachable_loop(b, nbrs, i + 1, result, seen)
          ELSE LET sub == all_reachable_recursive(b, next_cell, Append(seen, next_cell))
               IN all_reachable_loop(b, nbrs, i + 1, result \o sub.result, sub.seen)

all_reachable_recursive(b, cell, seen) ==
  all_reachable_loop(b, get_directly_reachable_neighbors(b, cell), 1, <<cell>>, seen)

all_reachable(b, cell) == all_reachable_recursive(b, cell, <<cell>>).result

\* A slip that only looks one step away.
is_reachable_direct(b, c1, c2) ==
  c1 = c2 \/ \E i \in 1..Len(get_directly_reachable_neighbors(b, c1)) :
                get_directly_reachable_neighbors(b, c1)[i][2] = c2

is_reachable(b, c1, c2) == InSeq(c2, all_reachable(b, c1))

(***************************************************************************)
(* Grid.dfs_walk                                                           *)
(***************************************************************************)
RECURSIVE dfs_walk_recursive(_, _, _)
RECURSIVE dfs_walk_loop(_, _, _, _, _, _)

dfs_walk_loop(b, current, nbrs, i, result, seen) ==
  IF i > Len(nbrs) THEN [result |-> result, seen |-> seen]
  ELSE LET direction == nbrs[i][1]
           next_cell == nbrs[i][2]
       IN IF InSeq(next_cell, seen)
          THEN dfs_walk_loop(b, current, nbrs, i + 1, result, seen)
          ELSE LET edge == <<current[1], current[2], direction, next_cell[1], next_cell[2]>>
                   sub == dfs_walk_recursive(b, next_cell, Append(seen, next_cell))
               IN dfs_walk_loop(b, current, nbrs, i + 1,
                                Append(result, edge) \o sub.result, sub.seen)

dfs_walk_recursive(b, current, seen) ==
  IF Len(seen) = width * height THEN [result |-> <<>>, seen |-> seen]
  ELSE dfs_walk_loop(b, current, get_directly_reachable_neighbors(b, current), 1, <<>>, seen)

dfs_walk(b, x, y) == dfs_walk_recursive(b, <<x, y>>, <<>>).result

(***************************************************************************)
(* Initial state: the parsed arguments and Grid(width, height)             *)
(***************************************************************************)
Init ==
  /\ \E w \in 1..MaxCells, h \in 1..MaxCells :
       /\ w * h <= MaxCells
       /\ width = w
       /\ height = h
       /\ barriers = [c \in (0..(w - 1)) \X (0..(h - 1)) |-> NewCell]
  /\ mincomponent \in 1..MaxComponent
  /\ maxcomponent \in mincomponent..MaxComponent
  /\ pc = "carve"
  /\ current_cell = <<0, 0>>
  /\ cell_stack = <<>>
  /\ total_visited = 1
  /\ walk = <<>>
  /\ current_index = 0
  /\ cut_point = 0
  /\ scan = <<0, 0>>
  /\ reachable_cells = <<>>
  /\ starting_length = 0
  /\ attempts = 0
  /\ rand_cell = NoCell
  /\ random_direction = "N"
  /\ prior_wall = "Normal"
  /\ h_big = barriers
  /\ h_cell = barriers

args == <<width, height, mincomponent, maxcomponent>>
carver == <<current_cell, cell_stack, total_visited>>
partitioner == <<walk, current_index, cut_point>>
splitter == <<reachable_cells, starting_length, attempts, rand_cell, random_direction, prior_wall>>
history == <<h_big, h_cell>>

(***************************************************************************)
(* Grid.make_all_cells_reachable                                           *)
(***************************************************************************)
\* A dead end: backtrack (cell_stack.pop() raises on an empty stack).
Backtrack ==
  /\ pc = "carve"
  /\ total_visited < width * height
  /\ find_unused_neighbors(barriers, current_cell) = <<>>
  /\ IF cell_stack = <<>>
     THEN pc' = "crashed" /\ UNCHANGED <<current_cell, cell_stack>>
     ELSE /\ current_cell' = cell_stack[Len(cell_stack)]
          /\ cell_stack' = SubSeq(cell_stack, 1, Len(cell_stack) - 1)
          /\ pc' = pc
  /\ UNCHANGED <<args, barriers, total_visited, partitioner, scan, splitter, history>>

\* Move to a random unused neighbour.
Carve ==
  /\ pc = "carve"
  /\ total_visited < width * height
  /\ LET neighbors == find_unused_neighbors(barriers, current_cell)
     IN \E i \in 1..Len(neighbors) :
          /\ barriers' = remove_wall(barriers, current_cell, neighbors[i][2], neighbors[i][1])
          /\ cell_stack' = Append(cell_stack, current_cell)
          /\ current_cell' = neighbors[i][2]
          /\ total_visited' = total_visited + 1
  /\ UNCHANGED <<args, pc, partitioner, scan, splitter, history>>

\* The while loop ends and make_all_cells_reachable returns.
CarveReturn ==
  /\ pc = "carve"
  /\ total_visited >= width * height
  /\ pc' = "walk"
  /\ current_cell' = <<0, 0>>
  /\ cell_stack' = <<>>
  /\ total_visited' = 1
  /\ UNCHANGED <<args, barriers, partitioner, scan, splitter, history>>

\* walk = grid.dfs_walk(walkx, walky), for any start cell inside the grid.
Walk ==
  /\ pc = "walk"
  /\ \E walkx \in 0..(width - 1), walky \in 0..(height - 1) :
       walk' = dfs_walk(barriers, walkx, walky)
  /\ current_index' = 0
  /\ pc' = "partition"
  /\ UNCHANGED <<args, barriers, carver, cut_point, scan, splitter, history>>

(***************************************************************************)
(* The partition loop                                                      *)
(***************************************************************************)
\* A slip in the comparison of the skip test.
skip_cut_strict(index, cut, length) == index + cut + TailSlack > length

\* The cut would leave a very small final part.
skip_cut(index, cut, length) == index + cut + TailSlack >= length

\* while current_index < len(walk): cut_point = random.randint(min, max)
PartitionDraw ==
  /\ pc = "partition"
  /\ current_index < Len(walk)
  /\ cut_point' \in mincomponent..maxcomponent
  /\ pc' = "cut"
  /\ UNCHANGED <<args, barriers, carver, walk, current_index, scan, splitter, history>>

\* break; walk, current_index and cut_point are not read again.
PartitionBreak ==
  /\ pc = "cut"
  /\ skip_cut(current_index, cut_point, Len(walk))
  /\ pc' = "small"
  /\ walk' = <<>>
  /\ current_index' = 0
  /\ cut_point' = 0
  /\ UNCHANGED <<args, barriers, carver, scan, splitter, history>>

\* Set the wall of walk[current_index + cut_point] and advance.
PartitionCut ==
  /\ pc = "cut"
  /\ ~skip_cut(current_index, cut_point, Len(walk))
  /\ LET e == walk[current_index + cut_point + 1]
     IN barriers' = set_wall(barriers, <<e[1], e[2]>>, <<e[4], e[5]>>, e[3], "Extra").grid
  /\ current_index' = current_index + cut_point
  /\ pc' = "partition"
  /\ UNCHANGED <<args, carver, walk, cut_point, scan, splitter, history>>

\* The while condition fails.
PartitionEnd ==
  /\ pc = "partition"
  /\ current_index >= Len(walk)
  /\ pc' = "small"
  /\ walk' = <<>>
  /\ current_index' = 0
  /\ cut_point' = 0
  /\ UNCHANGED <<args, barriers, carver, scan, splitter, history>>

(***************************************************************************)
(* The row-major scan of the passes: for y ... for x ...                   *)
(***************************************************************************)
LastCell(s) == s = <<width - 1, height - 1>>

NextScan(s) == IF s[1] + 1 < width THEN <<s[1] + 1, s[2]>> ELSE <<0, s[2] + 1>>

\* Go on with the next cell of the pass, or with the next pass.
Advance(thispc, nextpc) ==
  IF LastCell(scan)
  THEN pc' = nextpc /\ scan' = <<0, 0>>
  ELSE pc' = thispc /\ scan' = NextScan(scan)

(***************************************************************************)
(* Grid.optimize_small_pieces                                              *)
(***************************************************************************)
is_small(count, min_component_threshold) == count < min_component_threshold - 1

RECURSIVE smallest_loop(_, _, _, _, _)
smallest_loop(b, c, nbrs, i, best) ==
  IF i > Len(nbrs) THEN best
  ELSE LET direction == nbrs[i][1]
           c2 == nbrs[i][2]
       IN IF ~is_reachable(b, c, c2) /\ Len(all_reachable(b, c2)) < best.count
          THEN smallest_loop(b, c, nbrs, i + 1,
                             [cell |-> c2, direction |-> direction,
                              count |-> Len(all_reachable(b, c2))])
          ELSE smallest_loop(b, c, nbrs, i + 1, best)

\* cell_smallest, direction_smallest, count_smallest after the neighbour loop.
find_smallest(b, c) ==
  smallest_loop(b, c, get_valid_neighbors(c), 1,
                [cell |-> NoCell, direction |-> "None", count |-> CountSmallestInit])

\* The cell's piece is not below the threshold.
SmallSkip ==
  /\ pc = "small"
  /\ ~is_small(Len(all_reachable(barriers, scan)), mincomponent)
  /\ Advance("small", "square")
  /\ UNCHANGED <<args, barriers, carver, partitioner, splitter, history>>

\* Tear down the wall to the unreachable neighbour with the smallest piece.
SmallMerge ==
  /\ pc = "small"
  /\ is_small(Len(all_reachable(barriers, scan)), mincomponent)
  /\ find_smallest(barriers, scan).cell # NoCell
  /\ barriers' = remove_wall(barriers, scan, find_smallest(barriers, scan).cell,
                             find_smallest(barriers, scan).direction)
  /\ Advance("small", "square")
  /\ UNCHANGED <<args, carver, partitioner, splitter, history>>

\* cell_smallest is None: cell_smallest.x raises AttributeError.
SmallFail ==
  /\ pc = "small"
  /\ is_small(Len(all_reachable(barriers, scan)), mincomponent)
  /\ find_smallest(barriers, scan).cell = NoCell
  /\ pc' = "crashed"
  /\ UNCHANGED <<args, barriers, carver, partitioner, scan, splitter, history>>

(***************************************************************************)
(* Grid.optimize_square_pieces                                             *)
(***************************************************************************)
RECURSIVE SeqMin(_, _, _)
SeqMin(s, i, k) ==
  IF i > Len(s) THEN 1000
  ELSE LET rest == SeqMin(s, i + 1, k) IN IF s[i][k] < rest THEN s[i][k] ELSE rest

RECURSIVE SeqMax(_, _, _)
SeqMax(s, i, k) ==
  IF i > Len(s) THEN -1000
  ELSE LET rest == SeqMax(s, i + 1, k) IN IF s[i][k] > rest THEN s[i][k] ELSE rest

is_square(cells) ==
  /\ SeqMin(cells, 1, 1) + 1 = SeqMax(cells, 1, 1)
  /\ SeqMin(cells, 1, 2) + 1 = SeqMax(cells, 1, 2)

found_square(b, cell) ==
  Len(all_reachable(b, cell)) = 4 /\ is_square(all_reachable(b, cell))

SquareSkip ==
  /\ pc = "square"
  /\ ~found_square(barriers, scan)
  /\ Advance("square", "big")
  /\ h_big' = barriers
  /\ h_cell' = barriers
  /\ UNCHANGED <<args, barriers, carver, partitioner, splitter>>

\* Tear down the wall in a random direction, if a cell lies there.
SquareBreak ==
  /\ pc = "square"
  /\ found_square(barriers, scan)
  /\ \E d \in Directions :
       barriers' = IF find_neighbor(scan, d) # NoCell
                   THEN remove_wall(barriers, scan, find_neighbor(scan, d), d)
                   ELSE barriers
  /\ Advance("square", "big")
  /\ h_big' = barriers'
  /\ h_cell' = barriers'
  /\ UNCHANGED <<args, carver, partitioner, splitter>>

(***************************************************************************)
(* Grid.optimize_too_big_pieces                                            *)
(***************************************************************************)
is_big(count, max_component_threshold) == count > max_component_threshold + BigSlack

\* A slip that tests only the piece of the current cell.
too_small_own(count, starting, min_component_threshold) ==
  count <= (min_component_threshold - 1)

\* The resulting size is too small for the current piece or for the remainder.
too_small(count, starting, min_component_threshold) ==
  \/ count <= (min_component_threshold - 1)
  \/ starting - count <= (min_component_threshold - 1)

\* The cell's piece is not too big (reachable_cells and starting_length are
\* assigned and not read before the next cell assigns them again).
BigSkip ==
  /\ pc = "big"
  /\ ~is_big(Len(all_reachable(barriers, scan)), maxcomponent)
  /\ Advance("big", "interior")
  /\ UNCHANGED <<args, barriers, carver, partitioner, splitter, history>>

\* The cell's piece is too big: enter the attempts loop.
BigEnter ==
  /\ pc = "big"
  /\ is_big(Len(all_reachable(barriers, scan)), maxcomponent)
  /\ reachable_cells' = all_reachable(barriers, scan)
  /\ starting_length' = Len(all_reachable(barriers, scan))
  /\ attempts' = 0
  /\ pc' = "attempt"
  /\ UNCHANGED <<args, barriers, carver, partitioner, scan, rand_cell,
                 random_direction, prior_wall, history>>

\* The locals of the attempts loop, once nothing reads them any more.
ForgetPick == rand_cell' = NoCell /\ random_direction' = "N" /\ prior_wall' = "Normal"

ForgetPiece == reachable_cells' = <<>> /\ starting_length' = 0 /\ attempts' = 0

\* Choose a random cell and direction: no cell lies there.
BigMiss ==
  /\ pc = "attempt"
  /\ attempts < MaxAttempts
  /\ \E i \in 1..Len(reachable_cells), d \in Directions :
       find_neighbor(reachable_cells[i], d) = NoCell
  /\ attempts' = attempts + 1
  /\ UNCHANGED <<args, barriers, pc, carver, partitioner, scan, reachable_cells,
                 starting_length, rand_cell, random_direction, prior_wall, history>>

\* Choose a random cell and direction and create a wall.
BigAttempt ==
  /\ pc = "attempt"
  /\ attempts < MaxAttempts
  /\ attempts' = attempts + 1
  /\ \E i \in 1..Len(reachable_cells), d \in Directions :
       /\ find_neighbor(reachable_cells[i], d) # NoCell
       /\ rand_cell' = reachable_cells[i]
       /\ random_direction' = d
       /\ barriers' = set_wall(barriers, reachable_cells[i],
                               find_neighbor(reachable_cells[i], d), d, "Normal").grid
       /\ prior_wall' = set_wall(barriers, reachable_cells[i],
                                 find_neighbor(reachable_cells[i], d), d, "Normal").result
  /\ pc' = "eval"
  /\ UNCHANGED <<args, carver, partitioner, scan, reachable_cells, starting_length, history>>

\* Recompute the piece, then roll the wall back, or accept the split, or go on.
BigEval ==
  /\ pc = "eval"
  /\ IF too_small(Len(all_reachable(barriers, scan)), starting_length, mincomponent)
     THEN /\ barriers' = set_wall(barriers, rand_cell, find_neighbor(rand_cell, random_direction),
                                  random_direction, prior_wall).grid
          /\ reachable_cells' = all_reachable(barriers, scan)
          /\ pc' = "attempt"
          /\ UNCHANGED <<scan, starting_length, attempts, h_cell>>
     ELSE IF Len(all_reachable(barriers, scan)) # starting_length
          THEN /\ barriers' = barriers
               /\ Advance("big", "interior")
               /\ ForgetPiece
               /\ h_cell' = barriers
          ELSE /\ barriers' = barriers
               /\ reachable_cells' = all_reachable(barriers, scan)
               /\ pc' = "attempt"
               /\ UNCHANGED <<scan, starting_length, attempts, h_cell>>
  /\ ForgetPick
  /\ UNCHANGED <<args, carver, partitioner, h_big>>

\* The attempts are used up: the piece stays as it is.
BigGiveUp ==
  /\ pc = "attempt"
  /\ attempts >= MaxAttempts
  /\ Advance("big", "interior")
  /\ ForgetPiece
  /\ h_cell' = barriers
  /\ UNCHANGED <<args, barriers, carver, partitioner, rand_cell, random_direction,
                 prior_wall, h_big>>

(***************************************************************************)
(* Grid.find_interior_walls                                                *)
(***************************************************************************)
RECURSIVE interior_loop_unchecked(_, _, _, _)
\* A slip that relabels every wall without asking whether the cells are reachable.
interior_loop_unchecked(b, c, nbrs, i) ==
  IF i > Len(nbrs) THEN b
  ELSE IF has_wall(b, c, nbrs[i][1])
       THEN interior_loop_unchecked(set_wall(b, c, nbrs[i][2], nbrs[i][1], "Interior").grid,
                                    c, nbrs, i + 1)
       ELSE interior_loop_unchecked(b, c, nbrs, i + 1)

RECURSIVE interior_loop(_, _, _, _)
interior_loop(b, c, nbrs, i) ==
  IF i > Len(nbrs) THEN b
  ELSE LET direction == nbrs[i][1]
           c2 == nbrs[i][2]
       IN IF has_wall(b, c, direction) /\ is_reachable(b, c, c2)
          THEN interior_loop(set_wall(b, c, c2, direction, "Interior").grid, c, nbrs, i + 1)
          ELSE interior_loop(b, c, nbrs, i + 1)

\* The body of the scan for one cell: all its valid neighbours.
Interior ==
  /\ pc = "interior"
  /\ barriers' = interior_loop(barriers, scan, get_valid_neighbors(scan), 1)
  /\ Advance("interior", "done")
  /\ UNCHANGED <<args, carver, partitioner, splitter, history>>

Next ==
  \/ Backtrack \/ Carve \/ CarveReturn \/ Walk
  \/ PartitionDraw \/ PartitionBreak \/ PartitionCut \/ PartitionEnd
  \/ SmallSkip \/ SmallMerge \/ SmallFail
  \/ SquareSkip \/ SquareBreak
  \/ BigSkip \/ BigEnter \/ BigMiss \/ BigAttempt \/ BigEval \/ BigGiveUp
  \/ Interior

Spec == Init /\ [][Next]_vars

(***************************************************************************)
(* Properties                                                              *)
(***************************************************************************)
\* The in-bounds (cell, direction) pairs, and each shared wall once.
Adjacent == {w \in Cells \X Directions : find_neighbor(w[1], w[2]) # NoCell}

SharedWalls == {w \in Adjacent : w[2] \in {"E", "S"}}

AbsentWalls(b) == Cardinality({w \in SharedWalls : b[w[1]][w[2]] = "None"})

PieceSize(b, c) == Len(all_reachable(b, c))

\* The piece of c: the set of the cells all_reachable lists.
Piece(b, c) == SeqToSet(all_reachable(b, c))

Pieces(b) == [c \in Cells |-> Piece(b, c)]

Destination(e) == <<e[4], e[5]>>

SpecGrid == width >= 2 /\ height >= 2

\* C1: when make_all_cells_reachable returns, every pair of cells is mutually
\* reachable and exactly width * height - 1 shared walls are absent.
CarverSpansGrid ==
  pc = "walk" =>
    /\ \A a \in Cells, c \in Cells : is_reachable(barriers, a, c)
    /\ AbsentWalls(barriers) = width * height - 1

CarverSpansGridWitness == pc = "walk" /\ SpecGrid /\ width * height >= 6

\* C2: dfs_walk on the carved grid returns width * height - 1 edges, no cell is
\* the destination of two edges and the start cell is the destination of none.
WalkVisitsEachCellOnce ==
  (pc = "partition" /\ current_index = 0 /\ SpecGrid) =>
    /\ Len(walk) = width * height - 1
    /\ \A i \in 1..Len(walk), j \in 1..Len(walk) :
         i # j => Destination(walk[i]) # Destination(walk[j])
    /\ \A i \in 1..Len(walk) : Destination(walk[i]) # <<walk[1][1], walk[1][2]>>

\* C3: when optimize_small_pieces has finished its scan, every cell's piece has
\* at least mincomponent cells.
NoSmallPieceAfterMerge ==
  (pc = "square" /\ scan = <<0, 0>> /\ SpecGrid /\ width * height >= mincomponent) =>
    \A c \in Cells : PieceSize(barriers, c) >= mincomponent

\* C4: in every state, a shared wall has the same kind on its two sides.
WallSymmetry ==
  \A w \in Adjacent :
    barriers[w[1]][w[2]] = barriers[find_neighbor(w[1], w[2])][wall_compliments[w[2]]]

WallSymmetryWitness == pc = "eval" /\ prior_wall = "None" /\ WallSymmetry

\* C5: after find_interior_walls, a wall is Interior only between mutually
\* reachable cells, every remaining wall between mutually reachable cells is
\* Interior, and the walls between unreachable cells kept their kind.
InteriorWallsClassified ==
  pc = "done" =>
    LET P == Pieces(barriers)
    IN \A w \in Adjacent :
         LET c == w[1]
             n == find_neighbor(w[1], w[2])
         IN /\ barriers[c][w[2]] = "Interior" => n \in P[c]
            /\ (barriers[c][w[2]] # "None" /\ n \in P[c]) => barriers[c][w[2]] = "Interior"
            /\ n \notin P[c] => barriers[c][w[2]] = h_cell[c][w[2]]

InteriorWallsClassifiedWitness ==
  /\ pc = "done"
  /\ \E w \in Adjacent : barriers[w[1]][w[2]] = "Interior"
  /\ \E w \in Adjacent : barriers[w[1]][w[2]] = "Extra"

\* C6: in optimize_small_pieces, an undersized cell whose in-bounds neighbours
\* are all reachable from it is passed over: no wall changes and no error.
UndersizedEnclosedCellIsSkipped ==
  [][(/\ pc = "small"
      /\ SpecGrid
      /\ is_small(PieceSize(barriers, scan), mincomponent)
      /\ \A w \in Adjacent : w[1] = scan => find_neighbor(w[1], w[2]) \in Piece(barriers, scan))
     => (barriers' = barriers /\ pc' # "crashed")]_vars

\* C7 as stated: the loop stops exactly when fewer than mincomponent + 3 walk
\* edges would remain after the cut point; otherwise it cuts and advances.
PartitionStopsBelowMinPlusThree ==
  [][pc = "cut" =>
       IF Len(walk) - (current_index + cut_point) < mincomponent + 3
       THEN pc' = "small" /\ barriers' = barriers
       ELSE pc' = "partition" /\ current_index' = current_index + cut_point]_vars

\* C7 as amended: the loop stops exactly when at most 3 walk edges would remain
\* after the cut point; otherwise it sets the wall of walk[current_index +
\* cut_point], an index inside the walk, to Extra and advances by cut_point.
PartitionStopsAtThree ==
  [][pc = "cut" =>
       /\ cut_point \in mincomponent..maxcomponent
       /\ IF Len(walk) - (current_index + cut_point) <= 3
          THEN pc' = "small" /\ barriers' = barriers
          ELSE /\ pc' = "partition"
               /\ current_index + cut_point + 1 \in 1..Len(walk)
               /\ current_index' = current_index + cut_point
               /\ LET e == walk[current_index + cut_point + 1]
                  IN /\ barriers'[<<e[1], e[2]>>][e[3]] = "Extra"
                     /\ barriers'[<<e[4], e[5]>>][wall_compliments[e[3]]] = "Extra"
                     /\ \A w \in Adjacent :
                          (w # <<(<<e[1], e[2]>>), e[3]>>
                             /\ w # <<(<<e[4], e[5]>>), wall_compliments[e[3]]>>)
                            => barriers'[w[1]][w[2]] = barriers[w[1]][w[2]]]_vars

PartitionStopsAtThreeWitness ==
  /\ pc = "cut"
  /\ current_index > 0
  /\ Len(walk) - (current_index + cut_point) <= 3
  /\ Len(walk) - (current_index + cut_point) >= 0

\* C8: at the head of the attempts loop the wall map is the one the cell was
\* taken up with: every attempt that was not accepted has been undone exactly,
\* and so is the map when the attempts are used up.
RejectedAttemptsLeaveWalls ==
  (pc = "attempt" /\ mincomponent >= 1) => barriers = h_cell

RejectedAttemptsLeaveWallsWitness ==
  /\ pc = "attempt"
  /\ attempts = MaxAttempts
  /\ SeqToSet(reachable_cells) # Piece(barriers, scan)
  /\ \E w \in Adjacent : w[1] \in Piece(barriers, scan) /\ barriers[w[1]][w[2]] = "Extra"

\* C9: between and after the cells optimize_too_big_pieces works on, every
\* cell whose piece an accepted split has changed, and every cell whose piece
\* had at least mincomponent cells when the pass began, has a piece of at
\* least mincomponent cells.
SplitKeepsMinimum ==
  pc \in {"big", "attempt", "interior"} =>
    LET before == Pieces(h_big)
        after == Pieces(barriers)
    IN \A c \in Cells :
         /\ before[c] # after[c] => Cardinality(after[c]) >= mincomponent
         /\ Cardinality(before[c]) >= mincomponent => Cardinality(after[c]) >= mincomponent

SplitKeepsMinimumWitness ==
  pc = "big" /\ barriers # h_big /\ mincomponent >= 2

\* C10: at every attempt the random cell is picked from the current reachable
\* set of the cell under the scan.
PickFromCurrentPiece ==
  (pc = "attempt" /\ attempts < MaxAttempts /\ SpecGrid) =>
    SeqToSet(reachable_cells) = Piece(barriers, scan)
====
